---- MODULE Spec2Model ----
(***************************************************************************)
(* Bitbucket flow storage (prefect.environments.storage.bitbucket) and its *)
(* API client (prefect.utilities.atlassian).                               *)
(*                                                                         *)
(* Python strings are sequences of tokens (a token stands for a run of     *)
(* characters), so the empty string is << >> and concatenation is \o.      *)
(* Python's None is the reserved one-token sequence None, which no string  *)
(* of the model contains.  Response bodies are sequences of bytes and      *)
(* decoded text is a sequence of code points.                              *)
(***************************************************************************)
EXTENDS Integers, Sequences, FiniteSets, TLC

VARIABLES
    repo,        \* Bitbucket.repo
    path,        \* Bitbucket.path (the default path), None when not given
    host,        \* BitbucketClient.host of the adapter's client, None when not given
    flows,       \* Bitbucket.flows : flow name -> file path
    _flows,      \* Bitbucket._flows : flow name -> flow object
    calls,       \* number of calls made on the instance so far
    requests,    \* number of HTTP requests sent so far by the client's session
    added,       \* per flow name, how many add_flow calls returned normally
    last,        \* what the most recent completed call did and how it ended
    serialized,  \* whether the callers hold an external lock around add_flow
    pc,          \* per thread, its position inside add_flow
    targ,        \* per thread, the flow object its add_flow call was given
    lost         \* a flow object stored by one call was replaced by another call's

vars == <<repo, path, host, flows, _flows, calls, requests, added, last,
          serialized, pc, targ, lost>>

(***************************************************************************)
(* Bounds of the model.                                                    *)
(***************************************************************************)
MaxCalls == 2
MaxFlowId == 2

(***************************************************************************)
(* Values.                                                                 *)
(***************************************************************************)
None == <<"None">>

Truthy(v) == v # None /\ v # << >>

CLOUD_API == <<"https://api.bitbucket.org/2.0">>

Names == {"a", "b"}
FlowObjects == [name : Names, id : 1..MaxFlowId]
Repos == {<<"team/repo1">>, <<"PROJ">>}
FilePaths == {<<"flows/f.py">>, <<"a.py">>}
Paths == {None, << >>, <<"flows/f.py">>}
Locations == {None, << >>, <<"flows/f.py">>, <<"a.py">>}
Hosts == {None, << >>, <<"https://bb.internal">>}
Branches == {<<"master">>, <<"main">>}
Threads == {"t1", "t2"}

\* Response bodies: empty, ASCII, a two-byte form, a two-byte form after ASCII,
\* a truncated two-byte form, a stray continuation byte, a byte never valid.
Bodies == {<< >>, <<65>>, <<195, 169>>, <<65, 195, 169>>, <<65, 195>>, <<169>>, <<255>>}
StatusCodes == {199, 200, 299, 300, 401, 404, 500}
Responses == [status_code : StatusCodes, content : Bodies]

Return(v) == [kind |-> "return", error |-> "", value |-> v]
Raise(e, info) == [kind |-> "raise", error |-> e, value |-> info]

Range(f) == {f[k] : k \in DOMAIN f}
Put(f, k, v) == [x \in DOMAIN f \cup {k} |-> IF x = k THEN v ELSE f[x]]
EmptyDict == [x \in {} |-> None]

(***************************************************************************)
(* str(bytes, "utf-8"): strict UTF-8 decoding of one- and two-byte forms,  *)
(* which is exact for every byte of Bodies (65 is ASCII, 195 leads a       *)
(* two-byte form, 169 is a continuation byte, 255 is never valid).         *)
(***************************************************************************)
RECURSIVE utf8_decode(_)
utf8_decode(bs) ==
    IF bs = << >> THEN [ok |-> TRUE, text |-> << >>]
    ELSE IF bs[1] < 128 THEN
        LET rest == utf8_decode(Tail(bs))
        IN  [ok |-> rest.ok, text |-> <<bs[1]>> \o rest.text]
    ELSE IF /\ bs[1] \in 194..223
            /\ Len(bs) >= 2
            /\ bs[2] \in 128..191 THEN
        LET rest == utf8_decode(Tail(Tail(bs)))
        IN  [ok |-> rest.ok,
             text |-> <<(bs[1] - 192) * 64 + (bs[2] - 128)>> \o rest.text]
    ELSE [ok |-> FALSE, text |-> << >>]

(***************************************************************************)
(* BitbucketClient                                                         *)
(***************************************************************************)
url_swapped(h, r, p, b) ==
    IF Truthy(h)
    THEN h \o <<"/projects/">> \o r \o <<"/browse/">> \o p \o <<"?raw&at=">> \o b
    ELSE CLOUD_API \o <<"/repositories/">> \o r \o <<"/src/">> \o p \o <<"/">> \o b

\* get_contents, the f-strings: the server form when self.host is truthy,
\* the cloud form otherwise.
url_for(h, r, p, b) ==
    IF Truthy(h)
    THEN h \o <<"/projects/">> \o r \o <<"/browse/">> \o p \o <<"?raw&at=">> \o b
    ELSE CLOUD_API \o <<"/repositories/">> \o r \o <<"/src/">> \o b \o <<"/">> \o p

\* _request: the response of the session, or the authentication error on 401.
_request(resp) ==
    IF resp.status_code = 401
    THEN Raise("AuthenticationFailed", << >>)
    ELSE Return(resp)

status_inclusive(resp, r, p, b) ==
    LET got == _request(resp)
    IN  IF got.kind = "raise" THEN got
        ELSE IF resp.status_code = 404 THEN Raise("NotFound", <<p, r, b>>)
        ELSE IF ~(200 <= resp.status_code /\ resp.status_code <= 300)
             THEN Raise("RequestFailed", <<resp.status_code>>)
        ELSE LET d == utf8_decode(resp.content)
             IN  IF d.ok THEN Return(d.text) ELSE Raise("UnicodeDecodeError", << >>)

\* get_contents after the URL is built: the outcome for a response.
contents_of(resp, r, p, b) ==
    LET got == _request(resp)
    IN  IF got.kind = "raise" THEN got
        ELSE IF resp.status_code = 404 THEN Raise("NotFound", <<p, r, b>>)
        ELSE IF ~(200 <= resp.status_code /\ resp.status_code < 300)
             THEN Raise("RequestFailed", <<resp.status_code>>)
        ELSE LET d == utf8_decode(resp.content)
             IN  IF d.ok THEN Return(d.text) ELSE Raise("UnicodeDecodeError", << >>)

(***************************************************************************)
(* Collaborators of the adapter that live outside these two files.         *)
(***************************************************************************)
\* Storage.__contains__, used by `flow.name in self`: the name is a key of
\* the registry.
contains(fl, name) == name \in DOMAIN fl

\* extract_flow_from_file(file_contents=content): a flow object, or an error
\* of its own.
extract_flow_from_file(content) ==
    {Return(f) : f \in FlowObjects} \cup {Raise("ExtractionError", << >>)}

\* Storage.run_basic_healthchecks(): returns nothing or raises.
run_basic_healthchecks == {Return(None), Raise("HealthcheckFailed", << >>)}

(***************************************************************************)
(* Bitbucket (the storage adapter)                                         *)
(***************************************************************************)
Master == <<"master">>
Self == <<"self">>

add_flow_no_check(flow, fl, ofl, p) ==
    [flows |-> Put(fl, flow.name, p),
     _flows |-> Put(ofl, flow.name, flow),
     outcome |-> Return(p)]

add_flow_own_path(flow, fl, ofl, p) ==
    IF contains(fl, flow.name)
    THEN [flows |-> fl, _flows |-> ofl,
          outcome |-> Raise("NameConflict", <<flow.name>>)]
    ELSE [flows |-> Put(fl, flow.name, <<flow.name, ".py">>),
          _flows |-> Put(ofl, flow.name, flow),
          outcome |-> Return(<<flow.name, ".py">>)]

add_flow_store_first(flow, fl, ofl, p) ==
    IF contains(fl, flow.name)
    THEN [flows |-> fl, _flows |-> Put(ofl, flow.name, flow),
          outcome |-> Raise("NameConflict", <<flow.name>>)]
    ELSE [flows |-> Put(fl, flow.name, p),
          _flows |-> Put(ofl, flow.name, flow),
          outcome |-> Return(p)]

\* add_flow as one uninterrupted call: the registries it leaves and how it ends.
add_flow_result(flow, fl, ofl, p) ==
    IF contains(fl, flow.name)
    THEN [flows |-> fl, _flows |-> ofl,
          outcome |-> Raise("NameConflict", <<flow.name>>)]
    ELSE [flows |-> Put(fl, flow.name, p),
          _flows |-> Put(ofl, flow.name, flow),
          outcome |-> Return(p)]

location_fallback(loc, fl, p) ==
    IF Truthy(loc) /\ loc \in Range(fl) THEN Return(loc)
    ELSE IF Truthy(p) THEN Return(p)
    ELSE Raise("NoLocation", << >>)

location_not_none(loc, fl, p) ==
    IF loc # None THEN
        IF loc \notin Range(fl) THEN Raise("NotContained", << >>) ELSE Return(loc)
    ELSE IF p # None THEN Return(p)
    ELSE Raise("NoLocation", << >>)

\* get_flow, the validation of flow_location: the location to fetch, or the error.
location_of(loc, fl, p) ==
    IF Truthy(loc) THEN
        IF loc \notin Range(fl) THEN Raise("NotContained", << >>) ELSE Return(loc)
    ELSE IF Truthy(p) THEN Return(p)
    ELSE Raise("NoLocation", << >>)

Run(validated, fetches, reqs, resps, extracts, outcome) ==
    [validated |-> validated, fetches |-> fetches, reqs |-> reqs, resps |-> resps,
     extracts |-> extracts, outcome |-> outcome]

fetch_swallow(loc, r, h) ==
    LET f == [repo |-> r, path |-> loc, branch |-> Master]
        q == [method |-> "GET", url |-> url_for(h, r, loc, Master)]
    IN  UNION {
            LET c == contents_of(resp, r, loc, Master)
            IN  IF c.kind = "raise"
                THEN {Run(TRUE, <<f>>, <<q>>, <<resp>>, <<<< >>>>, ex) :
                         ex \in extract_flow_from_file(<< >>)}
                ELSE {Run(TRUE, <<f>>, <<q>>, <<resp>>, <<c.value>>, ex) :
                         ex \in extract_flow_from_file(c.value)}
            : resp \in Responses}

fetch_retry(loc, r, h) ==
    LET f == [repo |-> r, path |-> loc, branch |-> Master]
        q == [method |-> "GET", url |-> url_for(h, r, loc, Master)]
    IN  UNION {
            LET c == contents_of(resp, r, loc, Master)
            IN  IF c.kind = "raise" /\ c.error = "RequestFailed"
                THEN {Run(TRUE, <<f, f>>, <<q, q>>, <<resp, resp>>, << >>, c)}
                ELSE IF c.kind = "raise"
                THEN {Run(TRUE, <<f>>, <<q>>, <<resp>>, << >>, c)}
                ELSE {Run(TRUE, <<f>>, <<q>>, <<resp>>, <<c.value>>, ex) :
                         ex \in extract_flow_from_file(c.value)}
            : resp \in Responses}

\* get_flow after validation: one get_contents(self.repo, flow_location) on the
\* adapter's client, then extract_flow_from_file on what it returned.  Every way
\* the call can go, over the responses of the server and the results of the
\* extraction.
fetch_runs(loc, r, h) ==
    LET f == [repo |-> r, path |-> loc, branch |-> Master]
        q == [method |-> "GET", url |-> url_for(h, r, loc, Master)]
    IN  UNION {
            LET c == contents_of(resp, r, loc, Master)
            IN  IF c.kind = "raise"
                THEN {Run(TRUE, <<f>>, <<q>>, <<resp>>, << >>, c)}
                ELSE {Run(TRUE, <<f>>, <<q>>, <<resp>>, <<c.value>>, ex) :
                         ex \in extract_flow_from_file(c.value)}
            : resp \in Responses}

\* build: the health checks, then the adapter itself.
build_result(hc) == IF hc.kind = "raise" THEN hc ELSE Return(Self)

NoCall == [op |-> "none", arg |-> None, validated |-> FALSE, fetches |-> << >>,
           reqs |-> << >>, resps |-> << >>, extracts |-> << >>,
           outcome |-> Return(None)]

Called(op, arg, run) ==
    [op |-> op, arg |-> arg, validated |-> run.validated, fetches |-> run.fetches,
     reqs |-> run.reqs, resps |-> run.resps, extracts |-> run.extracts,
     outcome |-> run.outcome]

NoFetch(outcome) == Run(FALSE, << >>, << >>, << >>, << >>, outcome)

ThreadsIdle ==
    /\ serialized = TRUE
    /\ pc = [t \in Threads |-> "idle"]
    /\ targ = [t \in Threads |-> [name |-> "a", id |-> 1]]
    /\ lost = FALSE

\* BitbucketClient(host=...): a client on its own, no adapter around it.
InitClient ==
    /\ host \in Hosts
    /\ repo = None
    /\ path = None
    /\ flows = EmptyDict
    /\ _flows = EmptyDict
    /\ calls = 0
    /\ requests = 0
    /\ added = [n \in Names |-> 0]
    /\ last = NoCall
    /\ ThreadsIdle

\* BitbucketClient.get_contents(repo, path, branch) answered by resp.
get_contents(r, p, b, resp) ==
    /\ calls < MaxCalls
    /\ calls' = calls + 1
    /\ requests' = requests + 1
    /\ last' = Called("get_contents", <<r, p, b>>,
                       Run(TRUE,
                           <<[repo |-> r, path |-> p, branch |-> b]>>,
                           <<[method |-> "GET", url |-> url_for(host, r, p, b)]>>,
                           <<resp>>, << >>,
                           contents_of(resp, r, p, b)))
    /\ UNCHANGED <<repo, path, host, flows, _flows, added, serialized, pc, targ, lost>>

NextClient ==
    \E r \in Repos, p \in FilePaths, b \in Branches, resp \in Responses :
        get_contents(r, p, b, resp)

SpecClient == InitClient /\ [][NextClient]_vars

(***************************************************************************)
(* One adapter instance, its calls made one after the other.               *)
(***************************************************************************)
\* Bitbucket(repo, path, host): empty registries, a client for host, no request.
Init ==
    /\ repo \in Repos
    /\ path \in Paths
    /\ host \in {None, <<"https://bb.internal">>}
    /\ flows = EmptyDict
    /\ _flows = EmptyDict
    /\ calls = 0
    /\ requests = 0
    /\ added = [n \in Names |-> 0]
    /\ last = NoCall
    /\ ThreadsIdle

add_flow(flow) ==
    /\ calls < MaxCalls
    /\ calls' = calls + 1
    /\ LET res == add_flow_result(flow, flows, _flows, path)
       IN  /\ flows' = res.flows
           /\ _flows' = res._flows
           /\ added' = IF res.outcome.kind = "return"
                       THEN [added EXCEPT ![flow.name] = @ + 1]
                       ELSE added
           /\ last' = Called("add_flow", flow, NoFetch(res.outcome))
    /\ UNCHANGED <<repo, path, host, requests, serialized, pc, targ, lost>>

get_flow(flow_location) ==
    /\ calls < MaxCalls
    /\ calls' = calls + 1
    /\ LET v == location_of(flow_location, flows, path)
       IN  \E run \in (IF v.kind = "raise" THEN {NoFetch(v)}
                       ELSE fetch_runs(v.value, repo, host)) :
               /\ requests' = requests + Len(run.reqs)
               /\ last' = Called("get_flow", flow_location, run)
    /\ UNCHANGED <<repo, path, host, flows, _flows, added, serialized, pc, targ, lost>>

build ==
    /\ calls < MaxCalls
    /\ calls' = calls + 1
    /\ \E hc \in run_basic_healthchecks :
           last' = Called("build", None, NoFetch(build_result(hc)))
    /\ UNCHANGED <<repo, path, host, flows, _flows, requests, added,
                   serialized, pc, targ, lost>>

Next ==
    \/ \E flow \in FlowObjects : add_flow(flow)
    \/ \E flow_location \in Locations : get_flow(flow_location)
    \/ build

Spec == Init /\ [][Next]_vars

(***************************************************************************)
(* One adapter instance shared by threads that call add_flow.  The         *)
(* interpreter may switch threads between the membership test and either   *)
(* registry write.  When serialized, the callers hold a lock of their own  *)
(* around each call.                                                       *)
(***************************************************************************)
InitThreads ==
    /\ repo \in Repos
    /\ path \in Paths
    /\ host = None
    /\ flows = EmptyDict
    /\ _flows = EmptyDict
    /\ calls = 0
    /\ requests = 0
    /\ added = [n \in Names |-> 0]
    /\ last = NoCall
    /\ serialized \in BOOLEAN
    /\ pc = [t \in Threads |-> "idle"]
    /\ targ = [t \in Threads |-> [name |-> "a", id |-> 1]]
    /\ lost = FALSE

\* A thread enters add_flow(flow).
t_call(t, flow) ==
    /\ pc[t] = "idle"
    /\ calls < MaxCalls
    /\ serialized => \A u \in Threads : pc[u] = "idle"
    /\ calls' = calls + 1
    /\ pc' = [pc EXCEPT ![t] = "check"]
    /\ targ' = [targ EXCEPT ![t] = flow]
    /\ UNCHANGED <<repo, path, host, flows, _flows, requests, added, last,
                   serialized, lost>>

t_check_skipped(t) ==
    /\ pc[t] = "check"
    /\ pc' = [pc EXCEPT ![t] = "set_flows"]
    /\ UNCHANGED <<repo, path, host, flows, _flows, calls, requests, added, last,
                   serialized, targ, lost>>

\* if flow.name in self: raise ValueError(...)
t_check(t) ==
    /\ pc[t] = "check"
    /\ IF contains(flows, targ[t].name)
       THEN /\ pc' = [pc EXCEPT ![t] = "idle"]
            /\ last' = Called("add_flow", targ[t],
                              NoFetch(Raise("NameConflict", <<targ[t].name>>)))
       ELSE /\ pc' = [pc EXCEPT ![t] = "set_flows"]
            /\ last' = last
    /\ UNCHANGED <<repo, path, host, flows, _flows, calls, requests, added,
                   serialized, targ, lost>>

\* self.flows[flow.name] = self.path
t_set_flows(t) ==
    /\ pc[t] = "set_flows"
    /\ flows' = Put(flows, targ[t].name, path)
    /\ pc' = [pc EXCEPT ![t] = "set__flows"]
    /\ UNCHANGED <<repo, path, host, _flows, calls, requests, added, last,
                   serialized, targ, lost>>

\* self._flows[flow.name] = flow
t_set__flows(t) ==
    /\ pc[t] = "set__flows"
    /\ _flows' = Put(_flows, targ[t].name, targ[t])
    /\ lost' = (lost \/ (/\ targ[t].name \in DOMAIN _flows
                         /\ _flows[targ[t].name] # targ[t]))
    /\ pc' = [pc EXCEPT ![t] = "return"]
    /\ UNCHANGED <<repo, path, host, flows, calls, requests, added, last,
                   serialized, targ>>

\* return self.path
t_return(t) ==
    /\ pc[t] = "return"
    /\ added' = [added EXCEPT ![targ[t].name] = @ + 1]
    /\ last' = Called("add_flow", targ[t], NoFetch(Return(path)))
    /\ pc' = [pc EXCEPT ![t] = "idle"]
    /\ UNCHANGED <<repo, path, host, flows, _flows, calls, requests,
                   serialized, targ, lost>>

NextThreads ==
    \E t \in Threads :
        \/ \E flow \in FlowObjects : t_call(t, flow)
        \/ t_check(t)
        \/ t_set_flows(t)
        \/ t_set__flows(t)
        \/ t_return(t)

SpecThreads == InitThreads /\ [][NextThreads]_vars

(***************************************************************************)
(* Properties                                                              *)
(***************************************************************************)
\* UTF-8 encoding of code points below 2048, the inverse the decoded text is
\* measured against.
RECURSIVE utf8_encode(_)
utf8_encode(cps) ==
    IF cps = << >> THEN << >>
    ELSE (IF cps[1] < 128 THEN <<cps[1]>>
          ELSE <<192 + (cps[1] \div 64), 128 + (cps[1] % 64)>>)
         \o utf8_encode(Tail(cps))

Occurs(part, whole) ==
    \E i \in 1..Len(whole) :
        /\ i + Len(part) - 1 <= Len(whole)
        /\ SubSeq(whole, i, i + Len(part) - 1) = part

RECURSIVE TextsUpTo(_, _)
TextsUpTo(S, n) ==
    IF n = 0 THEN {<< >>}
    ELSE LET shorter == TextsUpTo(S, n - 1)
         IN  shorter \cup {Append(t, c) : t \in shorter, c \in S}

\* The body is the UTF-8 encoding of some text.
IsUtf8(body) ==
    LET cands == {c \in 0..2047 : Occurs(utf8_encode(<<c>>), body)}
    IN  \E t \in TextsUpTo(cands, Len(body)) : utf8_encode(t) = body

IsError(o, e) == o.kind = "raise" /\ o.error = e
Is2xx(code) == 200 <= code /\ code < 300

\* C1: add_flow raises the duplicate-name error exactly when flow.name is already
\* a key of flows; otherwise it stores flows[flow.name] = the default path and
\* returns that path.  So no name is ever registered successfully twice.
C1_AddFlowRejectsExactlyDuplicates ==
    /\ [](\A n \in Names : added[n] <= 1)
    /\ [][(last'.op = "add_flow" /\ calls' = calls + 1) =>
            LET name == last'.arg.name
            IN  IF name \in DOMAIN flows
                THEN /\ IsError(last'.outcome, "NameConflict")
                     /\ last'.outcome.value = <<name>>
                     /\ added' = added
                ELSE /\ last'.outcome.kind = "return"
                     /\ last'.outcome.value = path
                     /\ name \in DOMAIN flows'
                     /\ flows'[name] = path
                     /\ added'[name] = added[name] + 1]_vars

\* C1 witness: a second add_flow for a registered name was rejected.
C1_DuplicateRejected ==
    /\ last.op = "add_flow"
    /\ IsError(last.outcome, "NameConflict")
    /\ added[last.arg.name] = 1
    /\ flows[last.arg.name] = path

\* C2 as stated: for every location string, the empty string included, that is
\* not a value of the registry, get_flow raises the not-contained error and
\* fetches nothing.
C2_AnyStringNotContained ==
    (last.op = "get_flow" /\ last.arg # None /\ last.arg \notin Range(flows)) =>
        /\ IsError(last.outcome, "NotContained")
        /\ last.fetches = << >>
        /\ last.reqs = << >>

\* C2 as amended: for every non-empty location string that is not a value of the
\* registry, get_flow raises the not-contained error, never falls back to the
\* default path and fetches nothing.
C2_NonEmptyNotContained ==
    (last.op = "get_flow" /\ last.arg \notin {None, << >>}
                          /\ last.arg \notin Range(flows)) =>
        /\ IsError(last.outcome, "NotContained")
        /\ last.fetches = << >>
        /\ last.reqs = << >>

\* C2 witness: an unregistered location was rejected although a default path
\* and a registered flow exist.
C2_RejectedDespiteDefaultPath ==
    /\ last.op = "get_flow"
    /\ last.arg = <<"a.py">>
    /\ path = <<"flows/f.py">>
    /\ DOMAIN flows # {}
    /\ IsError(last.outcome, "NotContained")

\* C3 as stated: get_flow with no location and a default path of any string
\* value makes exactly one fetch of (repo, default path, "master"); with no
\* default path it raises the missing-location error.
C3_AnyStringDefaultPath ==
    (last.op = "get_flow" /\ last.arg = None) =>
        IF path # None
        THEN last.fetches = <<[repo |-> repo, path |-> path, branch |-> <<"master">>]>>
        ELSE IsError(last.outcome, "NoLocation") /\ last.fetches = << >>

\* C3 as amended: get_flow with no location and a non-empty default path makes
\* exactly one fetch of (repo, default path, "master"), whether or not a flow is
\* registered, and when the fetch succeeds it returns what the extraction
\* returned; with no default path, or an empty one, it raises the
\* missing-location error and fetches nothing.
C3_NonEmptyDefaultPath ==
    (last.op = "get_flow" /\ last.arg = None) =>
        IF path \notin {None, << >>}
        THEN /\ last.fetches = <<[repo |-> repo, path |-> path, branch |-> <<"master">>]>>
             /\ Len(last.reqs) = 1
             /\ Len(last.resps) = 1
             /\ (Is2xx(last.resps[1].status_code) /\ IsUtf8(last.resps[1].content)) =>
                    /\ Len(last.extracts) = 1
                    /\ last.outcome \in extract_flow_from_file(last.extracts[1])
             /\ last.outcome.kind = "return" => Len(last.extracts) = 1
        ELSE /\ IsError(last.outcome, "NoLocation")
             /\ last.fetches = << >>
             /\ last.reqs = << >>

\* C3 witness: with nothing registered, get_flow() fetched the default path and
\* returned the extracted flow.
C3_DefaultPathFetchedUnregistered ==
    /\ last.op = "get_flow"
    /\ last.arg = None
    /\ DOMAIN flows = {}
    /\ last.fetches = <<[repo |-> <<"team/repo1">>, path |-> <<"flows/f.py">>,
                         branch |-> <<"master">>]>>
    /\ last.outcome.kind = "return"
    /\ last.outcome.value \in FlowObjects

StatusErrors(resp, o, r, p, b) ==
    /\ o.kind \in {"return", "raise"}
    /\ resp.status_code = 401 => IsError(o, "AuthenticationFailed")
    /\ resp.status_code = 404 => IsError(o, "NotFound") /\ o.value = <<p, r, b>>
    /\ (~Is2xx(resp.status_code) /\ resp.status_code \notin {401, 404}) =>
           IsError(o, "RequestFailed") /\ o.value = <<resp.status_code>>

C5_UrlByMode ==
    /\ [](last.op = "get_contents" =>
            LET r == last.arg[1]
                p == last.arg[2]
                b == last.arg[3]
            IN  /\ Len(last.reqs) = 1
                /\ last.reqs[1].method = "GET"
                /\ last.reqs[1].url =
                       IF host \in {None, << >>}
                       THEN <<"https://api.bitbucket.org/2.0", "/repositories/", r[1],
                              "/src/", b[1], "/", p[1]>>
                       ELSE <<host[1], "/projects/", r[1], "/browse/", p[1],
                              "?raw&at=", b[1]>>)
    /\ [][host' = host]_vars

\* C5 witness: the server URL of host https://bb.internal, repo PROJ, a.py at main,
\* on the client's second call.
C5_ServerUrlScenario ==
    /\ last.op = "get_contents"
    /\ calls = 2
    /\ last.reqs[1].url = <<"https://bb.internal", "/projects/", "PROJ", "/browse/",
                            "a.py", "?raw&at=", "main">>

PassesValidation(loc) ==
    IF loc \in {None, << >>} THEN path \notin {None, << >>} ELSE loc \in Range(flows)

\* C7: no request is issued by construction, add_flow, build, or a get_flow that
\* ends in the not-contained or missing-location error; a request is issued only
\* by a get_flow whose location validation passed, and then exactly one.
C7_RequestsOnlyInValidatedGetFlow ==
    /\ requests = 0
    /\ [][/\ requests' # requests =>
                /\ last'.op = "get_flow"
                /\ PassesValidation(last'.arg)
                /\ requests' = requests + 1
                /\ Len(last'.reqs) = 1
          /\ (calls' # calls /\ last'.op # "get_flow") => last'.reqs = << >>
          /\ (calls' # calls /\ last'.op = "get_flow"
                             /\ ~PassesValidation(last'.arg)) =>
                 /\ last'.outcome.error \in {"NotContained", "NoLocation"}
                 /\ last'.reqs = << >>]_vars

\* C7 witness: after an add_flow, a get_flow answered 500 sent one request in all.
C7_NoRetryAfterServerError ==
    /\ last.op = "get_flow"
    /\ IsError(last.outcome, "RequestFailed")
    /\ last.outcome.value = <<500>>
    /\ requests = 1
    /\ calls = 2

\* C8: every value of the registry is the default path given at construction;
\* so a get_flow with a non-empty location passes validation exactly when some
\* flow is registered and the location is the default path.
C8_RegistryValuesAreDefaultPath ==
    /\ \A n \in DOMAIN flows : flows[n] = path
    /\ (last.op = "get_flow" /\ last.arg \notin {None, << >>}) =>
           (~IsError(last.outcome, "NotContained")
                <=> (DOMAIN flows # {} /\ last.arg = path))

\* C8 witness: get_flow with the default path as explicit location was accepted.
C8_ExplicitDefaultPathAccepted ==
    /\ last.op = "get_flow"
    /\ last.arg = <<"flows/f.py">>
    /\ DOMAIN flows # {}
    /\ Len(last.fetches) = 1

\* C9: get_flow, build and an add_flow that raises leave flows and _flows
\* unchanged; a successful add_flow adds exactly one key to each; the two
\* registries always have the same keys, and the key set only grows.
C9_RegistriesOnlyGrow ==
    /\ [](DOMAIN flows = DOMAIN _flows)
    /\ [][/\ DOMAIN flows \subseteq DOMAIN flows'
          /\ \A n \in DOMAIN flows : flows'[n] = flows[n] /\ _flows'[n] = _flows[n]
          /\ (calls' # calls /\ (last'.op # "add_flow" \/ last'.outcome.kind = "raise"))
                 => (flows' = flows /\ _flows' = _flows)
          /\ (calls' # calls /\ last'.op = "add_flow" /\ last'.outcome.kind = "return")
                 => /\ last'.arg.name \notin DOMAIN flows
                    /\ DOMAIN flows' = DOMAIN flows \cup {last'.arg.name}
                    /\ DOMAIN _flows' = DOMAIN _flows \cup {last'.arg.name}
                    /\ _flows'[last'.arg.name] = last'.arg]_vars

\* C9 witness: a rejected duplicate left the first flow object in place.
C9_RejectedDuplicateKeepsObject ==
    /\ last.op = "add_flow"
    /\ last.outcome.kind = "raise"
    /\ _flows[last.arg.name] # last.arg
    /\ DOMAIN flows = {last.arg.name}

\* C10: with the calls serialized, no name is registered successfully twice and
\* no stored flow object is replaced; without serialization two add_flow calls
\* for one name can both return and the second replaces the first's object.
C10_SerializedAddFlowIsSafe ==
    serialized => ((\A n \in Names : added[n] <= 1) /\ ~lost)

\* C10 witness: unserialized, two add_flow calls for one name both returned and a
\* stored object was replaced.
C10_BothCallsSucceed ==
    /\ ~serialized
    /\ \E n \in Names : added[n] = 2 /\ n \in DOMAIN _flows
    /\ lost
    /\ \A t \in Threads : pc[t] = "idle"
====
